---- MODULE Spec2Model ----
(***************************************************************************)
(* Gomoku (src/gomoku.py): the game-session controller GomokuApp and its   *)
(* move-evaluation engine, as a state machine.                             *)
(*                                                                         *)
(* The board is a function from cells <<r, c>> to EMPTY/BLACK/WHITE, the   *)
(* move log a sequence of Move records.  Handlers of the Tk event loop     *)
(* (restart, on_mode_or_diff_changed, on_click, undo, the timer callback   *)
(* do_ai_move) are the actions.  The engine's functions are operators that *)
(* take the board they read and, where the code writes self.board during a *)
(* speculative probe, return the board they leave behind.                  *)
(*                                                                         *)
(* Scores exceed 32 bits (10**12, -10**15, -10**18), so a score is a       *)
(* three-limb number <<a, b, c>> = a*10^12 + b*10^6 + c (see Num below).   *)
(*                                                                         *)
(* The candidate list is list(set) in the code: its order is incidental.   *)
(* Operators that return "the first candidate such that ..." therefore     *)
(* return the SET of cells that some order of the list can return.         *)
(***************************************************************************)
EXTENDS Integers, Sequences, FiniteSets, TLC

\* ------------------------------------------------------------------
\* Bounds of the model
\* ------------------------------------------------------------------
\* The grid dimension (15 in src/gomoku.py:9), reduced so that a full
\* board and every line length from 1 to 6 occur.
BOARD_SIZE == 7
\* Cap on the number of inputs that change the position in one behaviour:
\* stones placed by a click and undo presses that take stones back.
MaxClicks == 2

\* ------------------------------------------------------------------
\* Config (src/gomoku.py:9-32)
\* ------------------------------------------------------------------
CELL_SIZE == 36
MARGIN == 30

EMPTY == 0
BLACK == 1
WHITE == 2

DIRECTIONS == << <<1, 0>>, <<0, 1>>, <<1, 1>>, <<1, -1>> >>

MODE_PVP == "pvp"
MODE_AI == "ai"

DIFF_LOW == "low"
DIFF_MID == "mid"
DIFF_HIGH == "high"

CENTER == << BOARD_SIZE \div 2, BOARD_SIZE \div 2 >>

\* Length of a winning line (the literal 5 of check_win and pattern_score).
WIN_COUNT == 5
\* Neighbourhood radius ai_choose_move and ai_high pass to get_candidates.
RADIUS == 2
\* Sizes of the pre-ranked lists of ai_high and best_opponent_response.
TOP_MOVES == 20
TOP_RESPONSES == 15
\* Minimum size of the pick pool of ai_low.
LOW_POOL_MIN == 6

Modes == {MODE_PVP, MODE_AI}
Diffs == {DIFF_LOW, DIFF_MID, DIFF_HIGH}
Colors == {BLACK, WHITE}

Idx == 0 .. (BOARD_SIZE - 1)
Cells == Idx \X Idx

\* What a selection function can hand back besides a cell (r, c): the pair
\* (None, None) of ai_choose_move, the bare None of ai_mid when its loop never
\* assigns best (unpacking it raises TypeError in do_ai_move), and the
\* IndexError random.choice raises on an empty list.
NoCell == << >>
PyNone == << -1 >>
Raised == << -2 >>

Abs(x) == IF x < 0 THEN -x ELSE x
Max(x, y) == IF x >= y THEN x ELSE y
Min(x, y) == IF x <= y THEN x ELSE y

InBounds(r, c) == 0 <= r /\ r < BOARD_SIZE /\ 0 <= c /\ c < BOARD_SIZE

\* Sequencing of two statements: v is evaluated, then F is applied to its
\* value.
Then(v, F(_)) == CHOOSE y \in {F(x) : x \in {v}} : TRUE

\* The Move dataclass.
Move(r, c, color) == [r |-> r, c |-> c, color |-> color]

\* The board built by restart: every cell EMPTY.
EmptyBoard == [p \in Cells |-> EMPTY]

\* All cells in row-major order; SetToSeq lists a set of cells in that order.
AllCellsSeq == [i \in 1 .. (BOARD_SIZE * BOARD_SIZE) |->
                  << (i - 1) \div BOARD_SIZE, (i - 1) % BOARD_SIZE >>]
SetToSeq(S) == SelectSeq(AllCellsSeq, LAMBDA p : p \in S)

\* ------------------------------------------------------------------
\* Python integers of arbitrary size, as three limbs base 10^6
\* ------------------------------------------------------------------
LIMB == 1000 * 1000

NumNorm(a, b, c) ==
    LET b2 == b + (c \div LIMB)
    IN  << a + (b2 \div LIMB), b2 % LIMB, c % LIMB >>

NumInt(i) == NumNorm(0, 0, i)
NumAdd(x, y) == NumNorm(x[1] + y[1], x[2] + y[2], x[3] + y[3])
NumNeg(x) == NumNorm(-x[1], -x[2], -x[3])
NumSub(x, y) == NumAdd(x, NumNeg(y))
NumLt(x, y) ==
    \/ x[1] < y[1]
    \/ x[1] = y[1] /\ x[2] < y[2]
    \/ x[1] = y[1] /\ x[2] = y[2] /\ x[3] < y[3]
NumGt(x, y) == NumLt(y, x)
NumZero == << 0, 0, 0 >>

\* floor(n * x / d) for x >= 0, 0 < d <= 100, 0 <= n <= 105.
NumMulDivPos(n, d, x) ==
    LET p  == NumNorm(n * x[1], n * x[2], n * x[3])
        qa == p[1] \div d
        ra == p[1] % d
        tb == ra * LIMB + p[2]
        qb == tb \div d
        rb == tb % d
        tc == rb * LIMB + p[3]
    IN  << qa, qb, tc \div d >>

\* int(k * x) for the float k = n/d: Python multiplies in floating point and
\* int() truncates toward zero.  For every score the program can produce the
\* float product truncates to the same integer as the exact quotient.
IntMul(n, d, x) ==
    IF NumLt(x, NumZero) THEN NumNeg(NumMulDivPos(n, d, NumNeg(x)))
    ELSE NumMulDivPos(n, d, x)

\* 10**12, -10**15 and -10**18 of the source.
TEN12 == << 1, 0, 0 >>
OCCUPIED_SCORE == << -1000, 0, 0 >>
NEG_INIT == << -1000000, 0, 0 >>

\* ------------------------------------------------------------------
\* Win check (src/gomoku.py:277-293)
\* ------------------------------------------------------------------
RECURSIVE ScanThrough(_, _, _, _, _, _)
\* A scan that runs on to the edge of the grid and counts every stone of the
\* colour on its way.
ScanThrough(b, rr, cc, dr, dc, color) ==
    IF ~ InBounds(rr, cc) THEN 0
    ELSE (IF b[<<rr, cc>>] = color THEN 1 ELSE 0)
            + ScanThrough(b, rr + dr, cc + dc, dr, dc, color)

RECURSIVE ScanCount(_, _, _, _, _, _)
\* The while loop of count_one_direction from the cell (rr, cc) on.
ScanCount(b, rr, cc, dr, dc, color) ==
    IF InBounds(rr, cc) /\ b[<<rr, cc>>] = color
    THEN 1 + ScanCount(b, rr + dr, cc + dc, dr, dc, color)
    ELSE 0

RECURSIVE ScanReads(_, _, _, _, _, _)
\* The index pairs at which the loop test of a scan reads self.board: the
\* board is read only after both range tests have passed.
ScanReads(b, rr, cc, dr, dc, color) ==
    IF ~ InBounds(rr, cc) THEN {}
    ELSE {<<rr, cc>>} \cup
         (IF b[<<rr, cc>>] = color
          THEN ScanReads(b, rr + dr, cc + dc, dr, dc, color)
          ELSE {})

count_one_direction(b, r, c, dr, dc, color) ==
    ScanCount(b, r + dr, c + dc, dr, dc, color)

\* count of check_win for direction d.
LineTotal(b, r, c, d, color) ==
    1 + count_one_direction(b, r, c, d[1], d[2], color)
      + count_one_direction(b, r, c, -d[1], -d[2], color)

\* A win check that asks for more than five in a row.
check_win_overline(b, r, c, color) ==
    \E i \in 1 .. Len(DIRECTIONS) :
        LineTotal(b, r, c, DIRECTIONS[i], color) > WIN_COUNT

check_win(b, r, c, color) ==
    \E i \in 1 .. Len(DIRECTIONS) :
        LineTotal(b, r, c, DIRECTIONS[i], color) >= WIN_COUNT

\* ------------------------------------------------------------------
\* Speculative probe (src/gomoku.py:484-490)
\* ------------------------------------------------------------------
\* A probe that leaves its stone on the board.
is_win_move_unrestored(b, r, c, color) ==
    IF b[<<r, c>>] # EMPTY
    THEN [win |-> FALSE, board |-> b]
    ELSE [win |-> check_win([b EXCEPT ![<<r, c>>] = color], r, c, color),
          board |-> [b EXCEPT ![<<r, c>>] = color]]

\* is_win_move writes the stone, checks, and writes EMPTY back; the result
\* carries the board the call leaves behind.
is_win_move(b, r, c, color) ==
    IF b[<<r, c>>] # EMPTY
    THEN [win |-> FALSE, board |-> b]
    ELSE LET b1 == [b EXCEPT ![<<r, c>>] = color]
         IN  [win |-> check_win(b1, r, c, color),
              board |-> [b1 EXCEPT ![<<r, c>>] = EMPTY]]

\* ------------------------------------------------------------------
\* Scoring (src/gomoku.py:495-565)
\* ------------------------------------------------------------------
\* A score that looks at the count alone.
pattern_score_by_count(count, open_ends) == NumInt(count)

pattern_score(count, open_ends) ==
    IF count >= 5 THEN TEN12
    ELSE IF count = 4 /\ open_ends = 2 THEN << 0, 100, 0 >>
    ELSE IF count = 4 /\ open_ends = 1 THEN << 0, 1, 0 >>
    ELSE IF count = 3 /\ open_ends = 2 THEN << 0, 0, 100000 >>
    ELSE IF count = 3 /\ open_ends = 1 THEN << 0, 0, 1000 >>
    ELSE IF count = 2 /\ open_ends = 2 THEN << 0, 0, 500 >>
    ELSE IF count = 2 /\ open_ends = 1 THEN << 0, 0, 80 >>
    ELSE IF count = 1 /\ open_ends = 2 THEN << 0, 0, 10 >>
    ELSE << 0, 0, 1 >>

\* end1_open / end2_open: the cell where a scan of cnt stones stopped.
EndOpen(b, r, c, dr, dc, cnt) ==
    LET rr == r + (cnt + 1) * dr
        cc == c + (cnt + 1) * dc
    IN  InBounds(rr, cc) /\ b[<<rr, cc>>] = EMPTY

line_count_and_open_ends(b, r, c, dr, dc, color) ==
    LET cnt1 == ScanCount(b, r + dr, c + dc, dr, dc, color)
        cnt2 == ScanCount(b, r - dr, c - dc, -dr, -dc, color)
        end1_open == EndOpen(b, r, c, dr, dc, cnt1)
        end2_open == EndOpen(b, r, c, -dr, -dc, cnt2)
    IN  [count |-> 1 + cnt1 + cnt2,
         open_ends |-> (IF end1_open THEN 1 ELSE 0) + (IF end2_open THEN 1 ELSE 0)]

\* The term one direction adds to total: pattern_score(count, open_ends).
direction_score(b, r, c, color, d) ==
    LET l == line_count_and_open_ends(b, r, c, d[1], d[2], color)
    IN  pattern_score(l.count, l.open_ends)

RECURSIVE ScoreDirs(_, _)
\* "total += ..." over the terms[i..] of the for loop of score_move.
ScoreDirs(terms, i) ==
    IF i > Len(terms) THEN NumZero
    ELSE NumAdd(terms[i], ScoreDirs(terms, i + 1))

score_move(b, r, c, color) ==
    IF b[<<r, c>>] # EMPTY THEN OCCUPIED_SCORE
    ELSE ScoreDirs([i \in 1 .. Len(DIRECTIONS) |->
                       direction_score(b, r, c, color, DIRECTIONS[i])] \o << >>, 1)

\* abs(r - CENTER[0]) + abs(c - CENTER[1])
center_dist(p) == Abs(p[1] - CENTER[1]) + Abs(p[2] - CENTER[2])

\* ------------------------------------------------------------------
\* Candidate generation (src/gomoku.py:359-372)
\* ------------------------------------------------------------------
\* Candidate generation without the opening case of an empty log.
\* Candidates that take in the cells that hold a stone.
get_candidates_with_stones(b, mv, radius) ==
    IF mv = << >> THEN {CENTER}
    ELSE {p \in Cells :
            \E i \in 1 .. Len(mv) :
                /\ Abs(p[1] - mv[i].r) <= radius
                /\ Abs(p[2] - mv[i].c) <= radius}

get_candidates_no_opening(b, mv, radius) ==
    {p \in Cells :
        /\ b[p] = EMPTY
        /\ \E i \in 1 .. Len(mv) :
              /\ Abs(p[1] - mv[i].r) <= radius
              /\ Abs(p[2] - mv[i].c) <= radius}

\* The occupied cells are read from the move log mv, emptiness from the
\* board b.  list(cand) is modelled as the set cand.
get_candidates(b, mv, radius) ==
    IF mv = << >> THEN {CENTER}
    ELSE {p \in Cells :
            /\ b[p] = EMPTY
            /\ \E i \in 1 .. Len(mv) :
                  /\ Abs(p[1] - mv[i].r) <= radius
                  /\ Abs(p[2] - mv[i].c) <= radius}

\* ------------------------------------------------------------------
\* Low tier (src/gomoku.py:374-382)
\* ------------------------------------------------------------------
\* sorted() is stable and the list order incidental, so a candidate can be
\* among the first top_k exactly when fewer than top_k candidates are
\* strictly closer to the center; random.choice returns any of the pool.
ai_low(candidates) ==
    LET top_k == Max(LOW_POOL_MIN, Cardinality(candidates) \div 3)
    IN  IF candidates = {} THEN {Raised}
        ELSE {p \in candidates :
                Cardinality({q \in candidates : center_dist(q) < center_dist(p)})
                    < top_k}

\* ------------------------------------------------------------------
\* Mid tier (src/gomoku.py:384-408)
\* ------------------------------------------------------------------
\* A selection function's result: the set ret of values the call can return
\* (one for each order of the candidate list) and the board it leaves.
Chosen(ret, b) == [ret |-> ret, board |-> b]

\* The loop "for r, c in candidates: if self.is_win_move(r, c, color)"
\* between two probes: the board, and the cells for which a probe has
\* answered true.
ProbeState(b, hits) == [board |-> b, hits |-> hits]

\* The loop state after the probe p of the cell.
WinProbe(st, p, cell) ==
    ProbeState(p.board, IF p.win THEN st.hits \cup {cell} ELSE st.hits)

RECURSIVE WinProbesRange(_, _, _, _, _)
\* The probes of cs[lo..hi] in order from the loop state st.  A stretch of
\* two or more probes is split in two halves: the inner set holds the state
\* the first half leaves, the outer one the state the second half leaves
\* when run from it.
WinProbesRange(st, cs, lo, hi, color) ==
    IF lo < hi
    THEN CHOOSE out \in
             {WinProbesRange(half, cs, (lo + hi) \div 2 + 1, hi, color) :
                half \in {WinProbesRange(st, cs, lo, (lo + hi) \div 2, color)}} : TRUE
    ELSE IF lo = hi
    THEN WinProbe(st, is_win_move(st.board, cs[lo][1], cs[lo][2], color), cs[lo])
    ELSE st

WinProbes(b, candidates, color) ==
    WinProbesRange(ProbeState(b, {}), SetToSeq(candidates), 1,
                   Cardinality(candidates), color)

\* score of step 3 of ai_mid for the cell p.
mid_score(b, p) ==
    NumSub(NumAdd(score_move(b, p[1], p[2], WHITE),
                  IntMul(9, 10, score_move(b, p[1], p[2], BLACK))),
           NumInt(center_dist(p) * 3))

\* The cells a "first strictly greater than best_score" loop can end with,
\* over all orders of the list; None when no score exceeds the initial one.
BestOf(cands, sc) ==
    IF \A p \in cands : ~ NumGt(sc[p], NEG_INIT) THEN {PyNone}
    ELSE {p \in cands : \A q \in cands : ~ NumGt(sc[q], sc[p])}

\* 3) scoring, on the board b the probes left.
ai_mid_scoring(b, candidates) ==
    Chosen(BestOf(candidates, [p \in candidates |-> mid_score(b, p)]), b)

\* 2) immediate block, after the probes w for the computer's own win.
ai_mid_block(k, candidates) ==
    IF k.hits # {} THEN Chosen(k.hits, k.board)
    ELSE ai_mid_scoring(k.board, candidates)

\* A Mid tier that goes straight to the block step.
ai_mid_win_skipped(w, candidates) ==
    ai_mid_block(WinProbes(w.board, candidates, BLACK), candidates)

\* 1) immediate win for AI
ai_mid_win(w, candidates) ==
    IF w.hits # {} THEN Chosen(w.hits, w.board)
    ELSE ai_mid_block(WinProbes(w.board, candidates, BLACK), candidates)

ai_mid(b, candidates) ==
    ai_mid_win(WinProbes(b, candidates, WHITE), candidates)

\* ------------------------------------------------------------------
\* High tier (src/gomoku.py:410-482)
\* ------------------------------------------------------------------
\* Tuples (s, r, c) compare lexicographically, as Python tuples do.
TupleGt(x, y) ==
    \/ NumGt(x[1], y[1])
    \/ x[1] = y[1] /\ x[2] > y[2]
    \/ x[1] = y[1] /\ x[2] = y[2] /\ x[3] > y[3]

\* Each tuple of the set R with the number of tuples of R that exceed it.
Ranks(R) == {<< Cardinality({y \in R : TupleGt(y, x)}), x >> : x \in R}

\* The tuple that rk ranks at index i of the descending list.
Ranked(rk, i) == (CHOOSE e \in rk : e[1] = i - 1)[2]

\* The first n tuples of the descending list ranked by rk.
FirstRanked(rk, n) == [i \in 1 .. n |-> Ranked(rk, i)]

\* ranked.sort(reverse=True) and ranked[:limit] on the list of the distinct
\* (s, r, c) tuples R.
TopDesc(R, limit) == FirstRanked(Ranks(R), Min(limit, Cardinality(R)))

\* s of best_opponent_response for the cell p.
response_score(b, p) ==
    NumAdd(score_move(b, p[1], p[2], BLACK),
           IntMul(6, 10, score_move(b, p[1], p[2], WHITE)))

\* ranked[:min(15, len(ranked))], sorted, of best_opponent_response.
response_top(b, opp_candidates) ==
    TopDesc({<< response_score(b, p), p[1], p[2] >> : p \in opp_candidates},
            TOP_RESPONSES)

\* "best = 0; for s, _, _ in top: if s > best: best = s"
response_best(top) ==
    IF \A i \in 1 .. Len(top) : ~ NumGt(top[i][1], NumZero) THEN NumZero
    ELSE top[CHOOSE i \in 1 .. Len(top) :
                \A j \in 1 .. Len(top) : ~ NumGt(top[j][1], top[i][1])][1]

\* best_opponent_response after its win probes w.
response_after_probes(w, opp_candidates) ==
    IF w.hits # {} THEN [val |-> TEN12, board |-> w.board]
    ELSE Then(response_top(w.board, opp_candidates),
              LAMBDA top : [val |-> response_best(top), board |-> w.board])

best_opponent_response(b, opp_candidates) ==
    IF opp_candidates = {} THEN [val |-> NumZero, board |-> b]
    ELSE response_after_probes(WinProbes(b, opp_candidates, BLACK), opp_candidates)

\* The static pre-rank score of ai_high for the cell p.
high_static(b, p) ==
    NumSub(NumAdd(score_move(b, p[1], p[2], WHITE),
                  IntMul(8, 10, score_move(b, p[1], p[2], BLACK))),
           NumInt(center_dist(p) * 2))

\* self.board[r][c] = WHITE (line 439)
simulate(b, r, c) == [b EXCEPT ![<<r, c>>] = WHITE]

\* opp_candidates of the lookahead for the cell (r, c): get_candidates reads
\* the move log mv, in which the simulated stone is not.
opp_candidates_of(b, mv, r, c) == get_candidates(simulate(b, r, c), mv, RADIUS)

\* val and the revert, given the opponent's candidates cands and best response
\* opp: score_move is called while the simulated stone is still on the board
\* opp.board.
lookahead_measure(opp, cands, r, c) ==
    [win |-> FALSE,
     val |-> NumSub(score_move(opp.board, r, c, WHITE), IntMul(105, 100, opp.val)),
     opp_best |-> opp.val,
     cands |-> cands,
     board |-> [opp.board EXCEPT ![<<r, c>>] = EMPTY]]

\* The pass after the win re-check failed, on the board b1 that holds the
\* simulated stone.
lookahead_val(b1, cands, r, c) ==
    Then(best_opponent_response(b1, cands),
         LAMBDA opp : lookahead_measure(opp, cands, r, c))

\* The defensive re-check of lines 442-444: revert and return at once.
lookahead_won(b1, r, c) ==
    [win |-> TRUE, val |-> NumZero, opp_best |-> NumZero, cands |-> {},
     board |-> [b1 EXCEPT ![<<r, c>>] = EMPTY]]

\* One pass of the lookahead loop for the cell (r, c): simulate, re-check
\* the win, measure, revert.
lookahead_pass(b, mv, r, c) ==
    IF check_win(simulate(b, r, c), r, c, WHITE)
    THEN lookahead_won(simulate(b, r, c), r, c)
    ELSE lookahead_val(simulate(b, r, c), opp_candidates_of(b, mv, r, c), r, c)

\* The loop "for _, r, c in top_moves" between two passes: the board, best
\* and best_val so far, and whether the loop has returned (lines 442-444).
LoopState(b, best, best_val, returned) ==
    [board |-> b, best |-> best, best_val |-> best_val, returned |-> returned]

\* The loop state after the pass l for the cell: the early return, or "if
\* val > best_val".
LookaheadStep(st, l, cell) ==
    IF l.win THEN LoopState(l.board, cell, st.best_val, TRUE)
    ELSE IF NumGt(l.val, st.best_val) THEN LoopState(l.board, cell, l.val, FALSE)
    ELSE LoopState(l.board, st.best, st.best_val, FALSE)

RECURSIVE Lookahead(_, _, _, _, _)
\* The passes for top[lo..hi] in order from the loop state st, none once the
\* loop has returned.  A stretch of two or more passes is split in two
\* halves: the inner set holds the state the first half leaves, the outer
\* one the state the second half leaves when run from it.
Lookahead(st, mv, top, lo, hi) ==
    IF lo < hi /\ ~ st.returned
    THEN CHOOSE out \in
             {Lookahead(half, mv, top, (lo + hi) \div 2 + 1, hi) :
                half \in {Lookahead(st, mv, top, lo, (lo + hi) \div 2)}} : TRUE
    ELSE IF lo = hi /\ ~ st.returned
    THEN LookaheadStep(st, lookahead_pass(st.board, mv, top[lo][2], top[lo][3]),
                       << top[lo][2], top[lo][3] >>)
    ELSE st

\* top_moves = scored[:min(20, len(scored))], scored sorted.
top_moves(b, candidates) ==
    TopDesc({<< high_static(b, p), p[1], p[2] >> : p \in candidates}, TOP_MOVES)

\* "return best if best else self.ai_mid(candidates)"
ai_high_pick(st, candidates) ==
    IF st.best # PyNone THEN Chosen({st.best}, st.board)
    ELSE ai_mid(st.board, candidates)

\* 3+4) pre-rank and lookahead, on the board b the probes left.
ai_high_lookahead(b, mv, top, candidates) ==
    ai_high_pick(Lookahead(LoopState(b, PyNone, NEG_INIT, FALSE), mv, top, 1, Len(top)),
                 candidates)

\* 2) immediate block
ai_high_block(k, mv, candidates) ==
    IF k.hits # {} THEN Chosen(k.hits, k.board)
    ELSE ai_high_lookahead(k.board, mv, top_moves(k.board, candidates), candidates)

\* 1) immediate win
ai_high_win(w, mv, candidates) ==
    IF w.hits # {} THEN Chosen(w.hits, w.board)
    ELSE ai_high_block(WinProbes(w.board, candidates, BLACK), mv, candidates)

ai_high(b, mv, candidates) ==
    ai_high_win(WinProbes(b, candidates, WHITE), mv, candidates)

\* ------------------------------------------------------------------
\* Move selection (src/gomoku.py:348-357)
\* ------------------------------------------------------------------
\* A dispatch that sends Mid and High to the Low tier.
choose_among_low_only(b, mv, diff, candidates) ==
    IF candidates = {} THEN Chosen({NoCell}, b)
    ELSE Chosen(ai_low(candidates), b)

\* ret is the set of values the call can return (NoCell for None, None).
choose_among(b, mv, diff, candidates) ==
    IF candidates = {} THEN Chosen({NoCell}, b)
    ELSE IF diff = DIFF_LOW THEN Chosen(ai_low(candidates), b)
    ELSE IF diff = DIFF_MID THEN ai_mid(b, candidates)
    ELSE ai_high(b, mv, candidates)

\* A move selection that looks for candidates on the stones only.
ai_choose_move_radius0(b, mv, diff) ==
    choose_among(b, mv, diff, get_candidates(b, mv, 0))

ai_choose_move(b, mv, diff) ==
    choose_among(b, mv, diff, get_candidates(b, mv, RADIUS))

\* ------------------------------------------------------------------
\* Coordinate helpers (src/gomoku.py:570-587)
\* ------------------------------------------------------------------
rc_to_xy(r, c) == << MARGIN + c * CELL_SIZE, MARGIN + r * CELL_SIZE >>

\* int(round(d / CELL_SIZE)) for d >= -CELL_SIZE/2: Python rounds a tie to
\* the even neighbour.
RoundCell(d) ==
    LET k == (2 * d + CELL_SIZE) \div (2 * CELL_SIZE)
    IN  IF (2 * d + CELL_SIZE) % (2 * CELL_SIZE) = 0 /\ k % 2 = 1 THEN k - 1 ELSE k

xy_to_rc(x, y) ==
    LET dx == x - MARGIN
        dy == y - MARGIN
    IN  IF 2 * dx < -CELL_SIZE \/ 2 * dy < -CELL_SIZE THEN NoCell
        ELSE LET c == RoundCell(dx)
                 r == RoundCell(dy)
             IN  IF InBounds(r, c)
                    /\ 2 * Abs(rc_to_xy(r, c)[1] - x) <= CELL_SIZE
                    /\ 2 * Abs(rc_to_xy(r, c)[2] - y) <= CELL_SIZE
                 THEN <<r, c>>
                 ELSE NoCell

\* ------------------------------------------------------------------
\* State of GomokuApp (src/gomoku.py:43-112)
\* ------------------------------------------------------------------
VARIABLES
    board,            \* self.board
    moves,            \* self.moves
    current,          \* self.current
    game_over,        \* self.game_over
    ai_thinking,      \* self.ai_thinking
    ai_job,           \* self.ai_job is not None
    timers,           \* number of do_ai_move callbacks pending in Tk's after queue
    pending_restart,  \* self.pending_restart
    mode,             \* self.mode
    difficulty,       \* self.difficulty
    ui_mode,          \* self.ui_mode (the radio buttons)
    ui_diff,          \* self.ui_diff (the option menu)
    budget,           \* clicks and undo presses still allowed (the model's cap)
    last              \* the engine call examined, if any: name, arguments, result

vars == << board, moves, current, game_over, ai_thinking, ai_job, timers,
           pending_restart, mode, difficulty, ui_mode, ui_diff, budget, last >>

\* An engine call: its name, its arguments, its result, and the board and
\* the move log it was made on.
Call(op, args, ret, b, mv) ==
    [op |-> op, args |-> args, ret |-> ret, pre |-> [board |-> b, moves |-> mv]]
\* No engine call examined: the event loop is free to run a handler.
NoCall == [op |-> "none", args |-> << >>, ret |-> << >>, pre |-> << >>]

\* Pixel positions of the clicks the model tries: the center and two other
\* grid points, a point half way between two columns, and points off the
\* grid on either side.
ClickPoints ==
    { rc_to_xy(CENTER[1], CENTER[2]), rc_to_xy(0, 2), rc_to_xy(2, 1),
      <<48, 138>>, <<10, 30>>, <<30, 400>> }

\* ------------------------------------------------------------------
\* Game lifecycle (src/gomoku.py:95-118)
\* ------------------------------------------------------------------
\* cancel_ai_job: after_cancel removes the pending callback, if any.
\* A cancel that clears the handle and leaves the callback with Tk.
cancel_ai_job_handle_only == timers

cancel_ai_job_timers == IF ai_job THEN Max(timers - 1, 0) ELSE timers

restart ==
    /\ timers' = cancel_ai_job_timers
    /\ ai_job' = FALSE
    /\ mode' = ui_mode
    /\ difficulty' = ui_diff
    /\ pending_restart' = FALSE
    /\ board' = EmptyBoard
    /\ current' = BLACK
    /\ game_over' = FALSE
    /\ ai_thinking' = FALSE
    /\ moves' = << >>
    /\ UNCHANGED << ui_mode, ui_diff, budget, last >>

\* A radio button sets ui_mode and calls on_mode_or_diff_changed.
select_mode(m) ==
    /\ ui_mode' = m
    /\ pending_restart' = TRUE
    /\ UNCHANGED << board, moves, current, game_over, ai_thinking, ai_job, timers,
                    mode, difficulty, ui_diff, budget, last >>

\* The option menu sets ui_diff and calls on_mode_or_diff_changed; the menu
\* is enabled only while ui_mode is MODE_AI (update_controls_enabled).
select_diff(d) ==
    /\ ui_mode = MODE_AI
    /\ ui_diff' = d
    /\ pending_restart' = TRUE
    /\ UNCHANGED << board, moves, current, game_over, ai_thinking, ai_job, timers,
                    mode, difficulty, ui_mode, budget, last >>

\* ------------------------------------------------------------------
\* Input handling (src/gomoku.py:201-239)
\* ------------------------------------------------------------------
play_move_board(b, r, c, color) == [b EXCEPT ![<<r, c>>] = color]
\* A log that writes every stone down as BLACK.
play_move_moves_black(mv, r, c, color) == Append(mv, Move(r, c, BLACK))

play_move_moves(mv, r, c, color) == Append(mv, Move(r, c, color))

\* Early returns of on_click that let a click through after the game ended.
click_refused_unless_over(rc) ==
    \/ pending_restart
    \/ ai_thinking
    \/ mode = MODE_AI /\ current # BLACK
    \/ rc = NoCell
    \/ board[rc] # EMPTY

\* The early returns of on_click for a click that maps to the cell rc.
\* A test that lets a click through while a restart is pending.
click_refused_unless_pending(rc) ==
    \/ game_over
    \/ ai_thinking
    \/ mode = MODE_AI /\ current # BLACK
    \/ rc = NoCell
    \/ board[rc] # EMPTY

\* A test that lets a click through to a cell that holds a stone.
click_refused_unless_occupied(rc) ==
    \/ pending_restart
    \/ game_over
    \/ ai_thinking
    \/ mode = MODE_AI /\ current # BLACK
    \/ rc = NoCell

click_refused(rc) ==
    \/ pending_restart
    \/ game_over \/ ai_thinking
    \/ mode = MODE_AI /\ current # BLACK
    \/ rc = NoCell
    \/ board[rc] # EMPTY

on_click(x, y) ==
    LET rc == xy_to_rc(x, y)
    IN  IF click_refused(rc)
        THEN UNCHANGED vars
        ELSE LET r == rc[1]
                 c == rc[2]
                 b1 == play_move_board(board, r, c, current)
             IN  /\ budget > 0
                 /\ budget' = budget - 1
                 /\ board' = b1
                 /\ moves' = play_move_moves(moves, r, c, current)
                 /\ IF check_win(b1, r, c, current)
                    THEN /\ game_over' = TRUE
                         /\ UNCHANGED << current, ai_thinking, ai_job, timers >>
                    ELSE /\ current' = (IF current = BLACK THEN WHITE ELSE BLACK)
                         /\ game_over' = game_over
                         /\ IF mode = MODE_AI /\ ~ game_over /\ current' = WHITE
                            THEN \* schedule_ai_move
                                 /\ timers' = cancel_ai_job_timers + 1
                                 /\ ai_thinking' = TRUE
                                 /\ ai_job' = TRUE
                            ELSE UNCHANGED << ai_thinking, ai_job, timers >>
                 /\ UNCHANGED << pending_restart, mode, difficulty, ui_mode, ui_diff,
                                 last >>

\* ------------------------------------------------------------------
\* Undo (src/gomoku.py:244-272)
\* ------------------------------------------------------------------
\* An undo that shortens the log and leaves the stones on the board.
undo_pop_log_only(b, mv, steps) ==
    [board |-> b, moves |-> SubSeq(mv, 1, Len(mv) - Min(steps, Len(mv)))]

\* An undo that takes the oldest moves off the log.
undo_pop_oldest(b, mv, steps) ==
    [board |-> [p \in Cells |->
                   IF \E i \in 1 .. Min(steps, Len(mv)) : << mv[i].r, mv[i].c >> = p
                   THEN EMPTY ELSE b[p]],
     moves |-> SubSeq(mv, Min(steps, Len(mv)) + 1, Len(mv))]

RECURSIVE undo_pop(_, _, _)
\* "for _ in range(steps)": the board and the log after popping.
undo_pop(b, mv, steps) ==
    IF steps = 0 \/ mv = << >> THEN [board |-> b, moves |-> mv]
    ELSE LET m == mv[Len(mv)]
         IN  undo_pop([b EXCEPT ![<<m.r, m.c>>] = EMPTY],
                      SubSeq(mv, 1, Len(mv) - 1), steps - 1)

\* An undo that cancels the job and leaves ai_thinking as it is.
undo_keeps_thinking ==
    IF pending_restart \/ moves = << >>
    THEN UNCHANGED vars
    ELSE LET steps == IF mode = MODE_AI THEN 2 ELSE 1
             u == undo_pop(board, moves, steps)
         IN  /\ budget > 0
             /\ budget' = budget - 1
             /\ game_over' = FALSE
             /\ timers' = cancel_ai_job_timers
             /\ ai_job' = FALSE
             /\ board' = u.board
             /\ moves' = u.moves
             /\ current' = (IF Len(u.moves) % 2 = 0 THEN BLACK ELSE WHITE)
             /\ UNCHANGED << ai_thinking, pending_restart, mode, difficulty,
                             ui_mode, ui_diff, last >>

undo ==
    IF pending_restart \/ moves = << >>
    THEN UNCHANGED vars
    ELSE LET steps == IF mode = MODE_AI THEN 2 ELSE 1
             u == undo_pop(board, moves, steps)
         IN  /\ budget > 0
             /\ budget' = budget - 1
             /\ game_over' = FALSE
             /\ timers' = cancel_ai_job_timers
             /\ ai_job' = FALSE
             /\ ai_thinking' = FALSE
             /\ board' = u.board
             /\ moves' = u.moves
             /\ current' = (IF Len(u.moves) % 2 = 0 THEN BLACK ELSE WHITE)
             /\ UNCHANGED << pending_restart, mode, difficulty, ui_mode, ui_diff,
                             last >>

\* ------------------------------------------------------------------
\* AI scheduling (src/gomoku.py:298-343)
\* ------------------------------------------------------------------
\* The timer callback: Tk runs it when a scheduled callback is pending.
do_ai_move ==
    /\ timers > 0
    /\ timers' = timers - 1
    /\ ai_job' = FALSE
    /\ IF pending_restart \/ game_over \/ mode # MODE_AI \/ current # WHITE
       THEN /\ ai_thinking' = FALSE
            /\ UNCHANGED << board, moves, current, game_over >>
       ELSE LET ch == ai_choose_move(board, moves, difficulty)
            IN  \E rc \in ch.ret :
                  IF rc = PyNone \/ rc = Raised
                  THEN \* the exception leaves the callback after line 323
                       /\ board' = ch.board
                       /\ UNCHANGED << moves, current, game_over, ai_thinking >>
                  ELSE IF rc = NoCell
                  THEN /\ board' = ch.board
                       /\ ai_thinking' = FALSE
                       /\ UNCHANGED << moves, current, game_over >>
                  ELSE LET b1 == play_move_board(ch.board, rc[1], rc[2], WHITE)
                       IN  /\ board' = b1
                           /\ moves' = play_move_moves(moves, rc[1], rc[2], WHITE)
                           /\ ai_thinking' = FALSE
                           /\ IF check_win(b1, rc[1], rc[2], WHITE)
                              THEN game_over' = TRUE /\ current' = current
                              ELSE game_over' = game_over /\ current' = BLACK
    /\ UNCHANGED << pending_restart, mode, difficulty, ui_mode, ui_diff, budget,
                    last >>

\* ------------------------------------------------------------------
\* The game from construction
\* ------------------------------------------------------------------
\* __init__: ui_mode PVP, ui_diff low, no job, then restart().
Init ==
    /\ board = EmptyBoard
    /\ moves = << >>
    /\ current = BLACK
    /\ game_over = FALSE
    /\ ai_thinking = FALSE
    /\ ai_job = FALSE
    /\ timers = 0
    /\ pending_restart = FALSE
    /\ mode = MODE_PVP
    /\ difficulty = DIFF_LOW
    /\ ui_mode = MODE_PVP
    /\ ui_diff = DIFF_LOW
    /\ budget = MaxClicks
    /\ last = NoCall

Next ==
    \/ restart
    \/ \E m \in Modes : select_mode(m)
    \/ \E d \in Diffs : select_diff(d)
    \/ \E p \in ClickPoints : on_click(p[1], p[2])
    \/ undo
    \/ do_ai_move

Spec == Init /\ [][Next]_vars

\* ------------------------------------------------------------------
\* Games in progress
\* ------------------------------------------------------------------
\* Positions the second specification starts from.  Stones of one colour
\* lie on a line through the center (direction d, places k of LineSpan),
\* stones of the other colour on the neighbouring parallel line, and the
\* colour that is short of stones has single stones spread over a lattice on
\* which no two cells share a line within five steps.  The log alternates
\* black and white, black first, as play_move builds it.
LineSpan == -3 .. 2

Other(color) == IF color = BLACK THEN WHITE ELSE BLACK

LineCell(d, k) ==
    << CENTER[1] + k * DIRECTIONS[d][1], CENTER[2] + k * DIRECTIONS[d][2] >>

\* The step from the center line to its neighbour line.
Shift(d) == IF d = 2 THEN << 1, 0 >> ELSE IF d = 4 THEN << 0, -1 >> ELSE << 0, 1 >>
SideCell(d, k) == << LineCell(d, k)[1] + Shift(d)[1], LineCell(d, k)[2] + Shift(d)[2] >>

\* p lies on the line of direction d through the cell q.
OnLine(d, q, p) ==
    (p[1] - q[1]) * DIRECTIONS[d][2] = (p[2] - q[2]) * DIRECTIONS[d][1]

Lattice == {p \in Cells : (p[1] + 2 * p[2]) % 5 = 0}
Fillers(d) ==
    SetToSeq({p \in Lattice : ~ OnLine(d, CENTER, p) /\ ~ OnLine(d, SideCell(d, 0), p)})

\* Sets of places that hold no five in a row.
Masks(lo, hi) ==
    {S \in SUBSET LineSpan :
        /\ Cardinality(S) >= lo /\ Cardinality(S) <= hi
        /\ \A k \in LineSpan : ~ (k .. (k + WIN_COUNT - 1)) \subseteq S}

\* The log of a game whose black stones are bs and white stones ws, in order.
Interleave(bs, ws) ==
    [i \in 1 .. (Len(bs) + Len(ws)) |->
        IF i % 2 = 1 THEN Move(bs[(i + 1) \div 2][1], bs[(i + 1) \div 2][2], BLACK)
        ELSE Move(ws[i \div 2][1], ws[i \div 2][2], WHITE)]

\* With b0 and w0 the line stones of black and white and f the spare cells:
\* the shortest alternating log in which to_move is next.
Balanced(b0, w0, f, to_move) ==
    LET e  == IF to_move = WHITE THEN 1 ELSE 0
        nW == Max(Len(w0), Len(b0) - e)
    IN  Interleave(b0 \o SubSeq(f, 1, nW + e - Len(b0)),
                   w0 \o SubSeq(f, 1, nW - Len(w0)))

\* Colour X on the places S of the center line, the other colour on the
\* places T of the neighbour line.
LineLog(d, X, S, T, to_move) ==
    LET xs == SetToSeq({LineCell(d, k) : k \in S})
        ys == SetToSeq({SideCell(d, k) : k \in T})
    IN  IF X = BLACK THEN Balanced(xs, ys, Fillers(d), to_move)
        ELSE Balanced(ys, xs, Fillers(d), to_move)

\* A board without an empty cell and without five in a row: pairs of equal
\* stones along each row, shifted by two from row to row.
FullLog ==
    LET dark(p) == ((p[2] + 2 * p[1]) \div 2) % 2 = 0
    IN  Interleave(SetToSeq({p \in Cells : dark(p)}),
                   SetToSeq({p \in Cells : ~ dark(p)}))

\* The board play_move builds from the log mv.
BoardOf(mv) ==
    [p \in Cells |->
        IF \E i \in 1 .. Len(mv) : << mv[i].r, mv[i].c >> = p
        THEN mv[CHOOSE i \in 1 .. Len(mv) : << mv[i].r, mv[i].c >> = p].color
        ELSE EMPTY]

Game(mv, m, diff, inputs) ==
    [moves |-> mv, mode |-> m, difficulty |-> diff, budget |-> inputs]

\* The cells do_ai_move can place on the board b with the log mv at the
\* tier diff whatever the order in which list(cand) hands over the
\* candidates.  At the Low tier these are the candidates with at most top_k
\* candidates as close to the center as they are: the stable sort puts them
\* among the first top_k for every order, and random.choice returns any cell
\* of the pool.  At the tiers Mid and High it is the cell ai_choose_move
\* returns when that is the same cell for every order.
SureAnswers(b, mv, diff) ==
    LET cands == get_candidates(b, mv, RADIUS)
        top_k == Max(LOW_POOL_MIN, Cardinality(cands) \div 3)
        ret   == ai_choose_move(b, mv, diff).ret
    IN  IF diff = DIFF_LOW
        THEN {p \in cands :
                Cardinality({q \in cands : center_dist(q) <= center_dist(p)})
                    <= top_k}
        ELSE IF Cardinality(ret) = 1 THEN {x \in ret : Len(x) = 2} ELSE {}

\* Games against the computer: there every white stone is a stone of
\* do_ai_move.  The log that continues the log mv (black to move) when the
\* human clicks the cells hs in turn and the computer, at the tier diff,
\* answers each click (answered) or each click but the last.  The answer is
\* the first in row-major order of the cells of SureAnswers that do not
\* complete five; there is no log when a click is refused, when a stone
\* completes five or when no cell is an answer for every order of the
\* candidates.
RECURSIVE AiLogs(_, _, _, _)
AiLogs(mv, hs, diff, answered) ==
    IF hs = << >> THEN {mv}
    ELSE LET h   == Head(hs)
             b   == BoardOf(mv)
             b1  == play_move_board(b, h[1], h[2], BLACK)
             mv1 == play_move_moves(mv, h[1], h[2], BLACK)
         IN  IF b[h] # EMPTY \/ check_win(b1, h[1], h[2], BLACK) THEN {}
             ELSE IF Len(hs) = 1 /\ ~ answered THEN {mv1}
             ELSE LET ws == {x \in SureAnswers(b1, mv1, diff) :
                                ~ check_win(play_move_board(b1, x[1], x[2], WHITE),
                                            x[1], x[2], WHITE)}
                  IN  IF ws = {} THEN {}
                      ELSE UNION {AiLogs(play_move_moves(mv1, w[1], w[2], WHITE),
                                         Tail(hs), diff, answered) :
                                     w \in {SetToSeq(ws)[1]}}

\* A corner, the middle of the top edge and the other corners, as the human
\* clicks them.
ScatteredCells ==
    << << 0, 0 >>, << 0, CENTER[2] >>, << 0, BOARD_SIZE - 1 >>,
       << BOARD_SIZE - 1, 0 >>, << BOARD_SIZE - 1, BOARD_SIZE - 1 >> >>

\* The clicks of a human who, against the Low tier, fills a board of seven
\* by seven without a line of five: from the center outwards, the last click
\* on the last empty cell.
FullClicks ==
    << << 3, 3 >>, << 3, 2 >>, << 2, 4 >>, << 4, 4 >>, << 5, 3 >>,
       << 1, 2 >>, << 2, 1 >>, << 2, 5 >>, << 3, 6 >>, << 4, 1 >>,
       << 0, 4 >>, << 2, 0 >>, << 4, 0 >>, << 6, 4 >>, << 0, 2 >>,
       << 1, 1 >>, << 0, 1 >>, << 0, 5 >>, << 1, 6 >>, << 5, 6 >>,
       << 6, 1 >>, << 6, 5 >>, << 6, 0 >>, << 5, 5 >>, << 6, 6 >> >>

\* Some cell completes five for the colour on the board of the log mv.
Threat(mv, color) ==
    \E p \in Cells : is_win_move(BoardOf(mv), p[1], p[2], color).win

\* Lines of three to five stones, two-player games, the other colour to move.
LineGames ==
    {Game(LineLog(d, X, S, {}, Other(X)), MODE_PVP, DIFF_LOW, 0) :
        d \in 1 .. Len(DIRECTIONS), X \in Colors, S \in Masks(3, 5)}

\* Four stones around the empty center and their owner to move, in a
\* two-player game; and a game against the computer after the human's first
\* stone and the computer's answer.  One input is left.
ClickGames ==
    {Game(LineLog(d, X, S, {}, X), MODE_PVP, DIFF_LOW, 1) :
        d \in 1 .. Len(DIRECTIONS), X \in Colors,
        S \in {M \in Masks(4, 4) : 0 \notin M}}
    \cup
    {Game(mv, MODE_AI, DIFF_LOW, 1) :
        mv \in AiLogs(<< >>, << LineCell(2, -1) >>, DIFF_LOW, TRUE)}
    \cup
    {Game(mv, MODE_AI, DIFF_MID, 1) :
        mv \in AiLogs(<< >>, << LineCell(2, -1) >>, DIFF_MID, TRUE)}

\* Four stones of one colour next to three or four of the other, white to
\* move and a winning cell on the board, in two-player games; and the games
\* against the computer in which the human has played the corners and an edge
\* cell and the computer has a winning cell.
ThreatMasks == { {-2, -1, 0, 1}, {-3, -2, 0, 1}, {-1, 0, 1} }
ThreatLogs ==
    {mv \in {LineLog(d, X, S, T, WHITE) :
                d \in 1 .. Len(DIRECTIONS), X \in Colors,
                S \in Masks(4, 4), T \in ThreatMasks} :
        Threat(mv, WHITE) \/ Threat(mv, BLACK)}
ThreatGames ==
    {Game(mv, MODE_PVP, diff, 0) : mv \in ThreatLogs, diff \in {DIFF_MID, DIFF_HIGH}}
    \cup
    {Game(mv, MODE_AI, DIFF_MID, 0) :
        mv \in {l \in AiLogs(<< >>, ScatteredCells, DIFF_MID, FALSE) : Threat(l, WHITE)}}

\* One to three black stones around the center, the computer to move.
QuietGames ==
    {Game(LineLog(d, BLACK, S, {}, WHITE), MODE_PVP, diff, 0) :
        d \in {2, 3}, S \in { {0}, {-1, 0}, {-1, 0, 1} },
        diff \in {DIFF_MID, DIFF_HIGH}}

\* The board of restart; and the board without an empty cell, in two-player
\* games and in the game against the computer that the clicks FullClicks
\* lead to.
EmptyGames == {Game(<< >>, m, diff, 0) : m \in Modes, diff \in Diffs}
FullGames ==
    {Game(mv, MODE_AI, DIFF_LOW, 0) : mv \in AiLogs(<< >>, FullClicks, DIFF_LOW, FALSE)}
    \cup {Game(FullLog, MODE_PVP, DIFF_MID, 0), Game(FullLog, MODE_PVP, DIFF_HIGH, 0)}

\* Two-player games that the click on the center has just won, with one
\* input left.
WonGames ==
    {Game(play_move_moves(LineLog(d, X, {-2, -1, 1, 2}, {}, X),
                          CENTER[1], CENTER[2], X),
          MODE_PVP, DIFF_LOW, 1) :
        d \in 1 .. Len(DIRECTIONS), X \in Colors}

\* A game against the computer after the human's first or second stone: the
\* computer to move, its job pending, one input left.
WaitingGames ==
    {Game(mv, MODE_AI, DIFF_MID, 1) :
        mv \in AiLogs(<< >>, << LineCell(2, -1) >>, DIFF_MID, FALSE)
                 \cup AiLogs(<< >>, << LineCell(2, -1), LineCell(2, 1) >>,
                             DIFF_MID, FALSE)}

Games ==
    LineGames \cup ClickGames \cup ThreatGames \cup QuietGames
        \cup EmptyGames \cup FullGames \cup WaitingGames \cup WonGames

\* The state of the program in the game g.  When the last move of the log
\* has completed five, on_click has set game_over and left the side to move
\* as it was; otherwise it has switched the side, and in a game against the
\* computer with white to move it has scheduled do_ai_move.
InGame(g) ==
    LET n == Len(g.moves)
        over == /\ n > 0
                /\ check_win(BoardOf(g.moves), g.moves[n].r, g.moves[n].c,
                             g.moves[n].color)
        to_move == IF over THEN g.moves[n].color
                   ELSE IF n % 2 = 0 THEN BLACK ELSE WHITE
        waiting == g.mode = MODE_AI /\ to_move = WHITE /\ ~ over
    IN  /\ board = BoardOf(g.moves)
        /\ moves = g.moves
        /\ current = to_move
        /\ game_over = over
        /\ ai_thinking = waiting
        /\ ai_job = waiting
        /\ timers = (IF waiting THEN 1 ELSE 0)
        /\ pending_restart = FALSE
        /\ mode = g.mode
        /\ difficulty = g.difficulty
        /\ ui_mode = g.mode
        /\ ui_diff = g.difficulty
        /\ budget = g.budget
        /\ last = NoCall

\* ------------------------------------------------------------------
\* Engine calls examined on the position of the state
\* ------------------------------------------------------------------
Idle == last.op = "none"

\* An engine call is examined between two handlers and while no restart is
\* pending: with pending_restart set, on_click and do_ai_move return before
\* they call the engine.
Examining == Idle /\ ~ pending_restart

\* The cells of the four lines through the center.
ProbeCells == {p \in Cells : \E d \in 1 .. Len(DIRECTIONS) : OnLine(d, CENTER, p)}

Frame ==
    UNCHANGED << moves, current, game_over, ai_thinking, ai_job, timers,
                 pending_restart, mode, difficulty, ui_mode, ui_diff, budget >>

call_check_win(r, c, color) ==
    /\ Examining
    /\ last' = Call("check_win", << r, c, color >>, check_win(board, r, c, color),
                    board, moves)
    /\ board' = board
    /\ Frame

call_is_win_move(r, c, color) ==
    /\ Examining
    /\ LET p == is_win_move(board, r, c, color)
       IN  /\ last' = Call("is_win_move", << r, c, color >>, p.win, board, moves)
           /\ board' = p.board
    /\ Frame

call_get_candidates ==
    /\ Examining
    /\ last' = Call("get_candidates", << RADIUS >>,
                    get_candidates(board, moves, RADIUS), board, moves)
    /\ board' = board
    /\ Frame

\* ai_choose_move at the tier of the game; one behaviour for each cell that
\* an order of the candidate list can make it return.
call_ai_choose_move ==
    /\ Examining
    /\ LET ch == ai_choose_move(board, moves, difficulty)
       IN  /\ board' = ch.board
           /\ \E rc \in ch.ret :
                 last' = Call("ai_choose_move", << difficulty >>, rc, board, moves)
    /\ Frame

\* best_opponent_response on the candidates of the position (High tier).
call_best_opponent_response ==
    /\ Examining
    /\ difficulty = DIFF_HIGH
    /\ LET o == best_opponent_response(board, get_candidates(board, moves, RADIUS))
       IN  /\ last' = Call("best_opponent_response", << >>, o.val, board, moves)
           /\ board' = o.board
    /\ Frame

\* The cells whose lookahead pass is examined: the cells of top_moves when
\* ai_high reaches its loop, none when it returns before the loop on an
\* immediate win or block.
LookaheadCells ==
    IF ~ Examining \/ difficulty # DIFF_HIGH THEN {}
    ELSE LET cands == get_candidates(board, moves, RADIUS)
             w     == WinProbes(board, cands, WHITE)
             k     == WinProbes(w.board, cands, BLACK)
             top   == top_moves(k.board, cands)
         IN  IF w.hits # {} \/ k.hits # {} THEN {}
             ELSE {<< top[i][2], top[i][3] >> : i \in 1 .. Len(top)}

\* One pass of the lookahead loop of ai_high for the cell (r, c).
call_lookahead(r, c) ==
    /\ Examining
    /\ LET l == lookahead_pass(board, moves, r, c)
       IN  /\ last' = Call("lookahead", << r, c >>,
                           [win |-> l.win, val |-> l.val, opp_best |-> l.opp_best,
                            cands |-> l.cands],
                           board, moves)
           /\ board' = l.board
    /\ Frame

\* ------------------------------------------------------------------
\* Games in progress, their handlers and the engine calls
\* ------------------------------------------------------------------
GameInit == \E g \in Games : InGame(g)

GameNext ==
    \/ Idle /\ restart
    \/ Idle /\ \E m \in Modes : select_mode(m)
    \/ Idle /\ \E d \in Diffs : select_diff(d)
    \/ Idle /\ \E p \in ClickPoints : on_click(p[1], p[2])
    \/ Idle /\ undo
    \/ Idle /\ do_ai_move
    \/ \E p \in ProbeCells, color \in Colors : call_check_win(p[1], p[2], color)
    \/ \E p \in ProbeCells, color \in Colors : call_is_win_move(p[1], p[2], color)
    \/ call_get_candidates
    \/ call_ai_choose_move
    \/ call_best_opponent_response
    \/ \E p \in LookaheadCells : call_lookahead(p[1], p[2])

GameSpec == GameInit /\ [][GameNext]_vars

\* ------------------------------------------------------------------
\* The line scanner and the pattern table on given positions
\* ------------------------------------------------------------------
\* A line through the center from edge to edge with the center left empty,
\* its owner to move.
EdgeMask == ((- CENTER[1]) .. (BOARD_SIZE - 1 - CENTER[1])) \ {0}
EdgeGames ==
    {Game(LineLog(d, X, EdgeMask, {}, X), MODE_PVP, DIFF_LOW, 0) :
        d \in 1 .. Len(DIRECTIONS), X \in Colors}

ScanGames ==
    EdgeGames \cup ClickGames \cup QuietGames \cup EmptyGames \cup FullGames

\* The eight steps a scan can take: DIRECTIONS and their opposites.
Steps == {<< s * DIRECTIONS[i][1], s * DIRECTIONS[i][2] >> :
             i \in 1 .. Len(DIRECTIONS), s \in {1, -1}}

call_count_one_direction(r, c, dr, dc, color) ==
    /\ Examining
    /\ last' = Call("count_one_direction", << r, c, dr, dc, color >>,
                    [cnt |-> count_one_direction(board, r, c, dr, dc, color),
                     reads |-> ScanReads(board, r + dr, c + dc, dr, dc, color)],
                    board, moves)
    /\ board' = board
    /\ Frame

call_line_count_and_open_ends(r, c, dr, dc, color) ==
    /\ Examining
    /\ last' = Call("line_count_and_open_ends", << r, c, dr, dc, color >>,
                    line_count_and_open_ends(board, r, c, dr, dc, color),
                    board, moves)
    /\ board' = board
    /\ Frame

call_pattern_score(count, open_ends) ==
    /\ Examining
    /\ last' = Call("pattern_score", << count, open_ends >>,
                    pattern_score(count, open_ends), board, moves)
    /\ board' = board
    /\ Frame

ScanInit == \E g \in ScanGames : InGame(g)

ScanNext ==
    \/ \E p \in Cells, s \in Steps, color \in Colors :
          call_count_one_direction(p[1], p[2], s[1], s[2], color)
    \/ \E p \in Cells, i \in 1 .. Len(DIRECTIONS), color \in Colors :
          call_line_count_and_open_ends(p[1], p[2], DIRECTIONS[i][1],
                                        DIRECTIONS[i][2], color)
    \/ \E count \in 1 .. BOARD_SIZE, open_ends \in 0 .. 2 :
          call_pattern_score(count, open_ends)

ScanSpec == ScanInit /\ [][ScanNext]_vars

\* ------------------------------------------------------------------
\* Properties
\* ------------------------------------------------------------------
\* The cell of the i-th move of the log mv.
LogCell(mv, i) == << mv[i].r, mv[i].c >>

\* The occupied cells of the board b.
Stones(b) == {p \in Cells : b[p] # EMPTY}

\* The number of contiguous stones of the colour next to (r, c) in the
\* direction (dr, dc), the cell (r, c) itself not counted.
Run(b, r, c, dr, dc, color) ==
    Cardinality({k \in 1 .. BOARD_SIZE :
                    \A j \in 1 .. k :
                        /\ InBounds(r + j * dr, c + j * dc)
                        /\ b[<< r + j * dr, c + j * dc >>] = color})

\* The length of the line a stone of the colour at (r, c) is part of, in the
\* i-th direction.
Through(b, r, c, i, color) ==
    1 + Run(b, r, c, DIRECTIONS[i][1], DIRECTIONS[i][2], color)
      + Run(b, r, c, -DIRECTIONS[i][1], -DIRECTIONS[i][2], color)

\* The longest such line over the four directions.
Longest(b, r, c, color) ==
    LET lines == {Through(b, r, c, i, color) : i \in 1 .. Len(DIRECTIONS)}
    IN  CHOOSE n \in lines : \A m \in lines : m <= n

\* The board holds five contiguous stones of one colour.
HasFive(b) ==
    \E p \in Stones(b), i \in 1 .. Len(DIRECTIONS) :
        \A k \in 1 .. 4 :
              /\ InBounds(p[1] + k * DIRECTIONS[i][1], p[2] + k * DIRECTIONS[i][2])
              /\ b[<< p[1] + k * DIRECTIONS[i][1], p[2] + k * DIRECTIONS[i][2] >>] = b[p]

\* The empty cells where a stone of the colour completes five or more.
WinCells(b, color) ==
    {p \in Cells : b[p] = EMPTY /\ Longest(b, p[1], p[2], color) >= 5}

\* The empty cells within Chebyshev distance 2 of an occupied cell.
Near(b) ==
    {p \in Cells :
        /\ b[p] = EMPTY
        /\ \E q \in Stones(b) : Abs(p[1] - q[1]) <= 2 /\ Abs(p[2] - q[2]) <= 2}

\* The engine call examined is ai_choose_move at the Mid or the High tier.
MidOrHighCall ==
    last.op = "ai_choose_move" /\ last.args[1] \in {DIFF_MID, DIFF_HIGH}

\* C1: in every state reachable by restart, clicks, computer moves, undo and
\* mode or difficulty changes, the non-empty cells of the board are exactly
\* the cells of the move log, each cell holds the colour the log records for
\* it, and no cell occurs twice in the log.
BoardMatchesLog ==
    /\ \A p \in Cells :
          board[p] # EMPTY <=> \E i \in 1 .. Len(moves) : LogCell(moves, i) = p
    /\ \A i \in 1 .. Len(moves) : board[LogCell(moves, i)] = moves[i].color
    /\ \A i, j \in 1 .. Len(moves) :
          LogCell(moves, i) = LogCell(moves, j) => i = j

\* Two clicks and two computer moves at the High tier are on the board.
BoardMatchesLogReached ==
    /\ mode = MODE_AI /\ difficulty = DIFF_HIGH
    /\ Len(moves) = 4 /\ moves[4].color = WHITE
    /\ Cardinality(Stones(board)) = 4

\* C2: is_win_move, ai_mid, ai_high (its early return on a win included) and
\* best_opponent_response return with the board cell for cell as it was
\* before the call and with the move log unchanged.
ProbesRestoreBoard ==
    (\/ last.op \in {"is_win_move", "best_opponent_response", "lookahead"}
     \/ MidOrHighCall)
        => board = last.pre.board /\ moves = last.pre.moves

\* The High tier returned early on the computer's winning cell and the
\* board is as before.
ProbesRestoreBoardReached ==
    /\ last.op = "ai_choose_move"
    /\ last.args[1] = DIFF_HIGH
    /\ last.ret \in WinCells(last.pre.board, WHITE)
    /\ board = last.pre.board
    /\ moves = last.pre.moves

\* C3: check_win(r, c, color) is true exactly when in some direction one plus
\* the contiguous stones of the colour forward plus those backward is at
\* least five; a longest line of four gives false, one of six or more true.
CheckWinIsFiveOrMore ==
    last.op = "check_win" =>
        LET r == last.args[1]
            c == last.args[2]
            color == last.args[3]
            b == last.pre.board
            longest == Longest(b, r, c, color)
        IN  /\ last.ret <=>
                  \E i \in 1 .. Len(DIRECTIONS) : Through(b, r, c, i, color) >= 5
            /\ longest = 4 => last.ret = FALSE
            /\ longest >= 6 => last.ret = TRUE

\* check_win answered true for a line of six.
CheckWinIsFiveOrMoreReached ==
    /\ last.op = "check_win"
    /\ last.ret = TRUE
    /\ Longest(last.pre.board, last.args[1], last.args[2], last.args[3]) = 6

\* The last move of the log completes a line of five or more of its colour.
LastMoveCompletesFive ==
    /\ moves # << >>
    /\ board[LogCell(moves, Len(moves))] = moves[Len(moves)].color
    /\ Longest(board, moves[Len(moves)].r, moves[Len(moves)].c,
               moves[Len(moves)].color) >= 5

\* C4: the win check follows every placement, of the human and of the
\* computer: while game_over is false the board holds no line of five or more
\* stones of one colour, while it is true the last move of the log completes
\* such a line, and once it is true no stone is placed until an undo or a
\* restart takes stones off and ends it.
WinCheckedAfterEveryPlacement ==
    /\ [](IF game_over THEN LastMoveCompletesFive ELSE ~ HasFive(board))
    /\ [][game_over =>
              IF game_over' THEN board' = board /\ moves' = moves
              ELSE Len(moves') < Len(moves)]_vars

\* The computer's stone completed five and ended the game.
WinCheckedAfterEveryPlacementReached ==
    /\ game_over
    /\ mode = MODE_AI
    /\ moves # << >>
    /\ moves[Len(moves)].color = WHITE
    /\ HasFive(board)

\* C5: at the tiers Mid and High, when some empty cell completes five or more
\* for the computer, ai_choose_move returns such a cell, whatever the scores
\* of the other candidates and whatever the opponent threatens.
ComputerTakesWin ==
    (MidOrHighCall /\ WinCells(last.pre.board, WHITE) # {})
        => last.ret \in WinCells(last.pre.board, WHITE)

\* The High tier took its win while the opponent had a winning cell of its
\* own elsewhere.
ComputerTakesWinReached ==
    /\ last.op = "ai_choose_move"
    /\ last.args[1] = DIFF_HIGH
    /\ last.ret \in WinCells(last.pre.board, WHITE)
    /\ WinCells(last.pre.board, BLACK) \ WinCells(last.pre.board, WHITE) # {}

\* C6: at the tiers Mid and High, when no empty cell completes five for the
\* computer and some empty cell completes five for the opponent,
\* ai_choose_move returns a cell that completes five for the opponent: the
\* only one when there is exactly one.
ComputerBlocksWin ==
    (/\ MidOrHighCall
     /\ WinCells(last.pre.board, WHITE) = {}
     /\ WinCells(last.pre.board, BLACK) # {})
        => last.ret \in WinCells(last.pre.board, BLACK)

\* The High tier returned the opponent's only winning cell.
ComputerBlocksWinReached ==
    /\ last.op = "ai_choose_move"
    /\ last.args[1] = DIFF_HIGH
    /\ WinCells(last.pre.board, WHITE) = {}
    /\ WinCells(last.pre.board, BLACK) = {last.ret}

\* C7: the lookahead of the High tier values a candidate at
\* score_move(computer, cell), the sum of the four directional pattern scores
\* of the computer's stone at the cell, minus 1.05 times the opponent's best
\* response.
LookaheadValueIsPatternScore ==
    (last.op = "lookahead" /\ ~ last.ret.win) =>
        last.ret.val =
            NumSub(score_move(last.pre.board, last.args[1], last.args[2], WHITE),
                   IntMul(105, 100, last.ret.opp_best))

\* C8: get_candidates with radius 2 on a board with a stone, the calls of
\* ai_high while its simulated stone is on the board included, returns
\* exactly the empty cells within Chebyshev distance 2 of an occupied cell of
\* the board.
CandidatesAreCellsNearStones ==
    /\ (last.op = "get_candidates" /\ Stones(last.pre.board) # {})
          => last.ret = Near(last.pre.board)
    /\ (last.op = "lookahead" /\ ~ last.ret.win)
          => last.ret.cands =
                 Near([last.pre.board EXCEPT
                          ![<< last.args[1], last.args[2] >>] = WHITE])

\* C9: on a board without stones get_candidates returns the center cell
\* (BOARD_SIZE // 2, BOARD_SIZE // 2) alone, and ai_choose_move at the Mid
\* tier returns that cell.
OpeningIsCenter ==
    /\ (last.op = "get_candidates" /\ Stones(last.pre.board) = {})
          => last.ret = {<< BOARD_SIZE \div 2, BOARD_SIZE \div 2 >>}
    /\ (last.op = "ai_choose_move" /\ last.args[1] = DIFF_MID
            /\ Stones(last.pre.board) = {})
          => last.ret = << BOARD_SIZE \div 2, BOARD_SIZE \div 2 >>

\* The Mid tier was asked on the empty board and returned the center.
OpeningIsCenterReached ==
    /\ last.op = "ai_choose_move"
    /\ last.args[1] = DIFF_MID
    /\ last.pre.moves = << >>
    /\ last.ret = << BOARD_SIZE \div 2, BOARD_SIZE \div 2 >>

\* C10: ai_choose_move returns (None, None) exactly when the board has no
\* empty cell and never raises, and do_ai_move on such a board places no
\* stone: the board and the move log stay as they are.
NoLegalMoveIffBoardFull ==
    /\ [](last.op = "ai_choose_move" =>
              /\ last.ret \notin {Raised, PyNone}
              /\ last.ret = NoCell <=> Stones(last.pre.board) = Cells)
    /\ [][(Stones(board) = Cells /\ do_ai_move)
              => (board' = board /\ moves' = moves)]_vars

\* do_ai_move has run on the full board: nothing is pending and the board
\* is still full.
NoLegalMoveIffBoardFullReached ==
    /\ last.op = "none"
    /\ Stones(board) = Cells
    /\ mode = MODE_AI
    /\ current = WHITE
    /\ ~ ai_thinking
    /\ timers = 0

\* C11: undo is last in, first out.  A step of undo that is not refused (no
\* restart pending, a move on the log) leaves a prefix of the log, shorter by one move in two-player mode and by two, or by the one move
\* there is, in computer mode; the cells of the moves taken off become EMPTY
\* and every other cell keeps its value.
UndoIsLastInFirstOut ==
    [][(~ (pending_restart \/ moves = << >>) /\ undo) =>
          /\ Len(moves') < Len(moves)
          /\ moves' = SubSeq(moves, 1, Len(moves'))
          /\ Len(moves) - Len(moves') =
                 (IF mode = MODE_PVP THEN 1 ELSE Min(2, Len(moves)))
          /\ \A p \in Cells :
                board'[p] =
                    (IF \E i \in (Len(moves') + 1) .. Len(moves) : LogCell(moves, i) = p
                     THEN EMPTY ELSE board[p])]_vars

\* Undo in computer mode took the human's second stone and the computer's
\* answer off the log: one stone is left and no job is pending.
UndoIsLastInFirstOutReached ==
    /\ last.op = "none"
    /\ mode = MODE_AI
    /\ Len(moves) = 1
    /\ budget = 0
    /\ ~ ai_thinking
    /\ Cardinality(Stones(board)) = 1

\* C12: a restart discards the pending computer move.  A restart leaves an
\* empty board and log with no callback pending; while the log is empty no
\* callback is pending and the board is empty, so the computer's job cannot
\* fire; and the first stone of a game is a BLACK stone placed by a click.
RestartDiscardsPendingMove ==
    /\ [](moves = << >> =>
            /\ timers = 0
            /\ ~ ai_job
            /\ ~ ai_thinking
            /\ board = EmptyBoard)
    /\ [][restart =>
            /\ timers' = 0
            /\ board' = EmptyBoard
            /\ moves' = << >>]_vars
    /\ [][(moves = << >> /\ moves' # << >>) =>
            /\ moves' = << Move(moves'[1].r, moves'[1].c, BLACK) >>
            /\ \E p \in ClickPoints :
                  /\ ~ click_refused(xy_to_rc(p[1], p[2]))
                  /\ on_click(p[1], p[2])]_vars

\* A game against the computer was restarted after the human's first click
\* and before a second input: the new game is empty with nothing pending.
RestartDiscardsPendingMoveReached ==
    /\ mode = MODE_AI
    /\ ~ pending_restart
    /\ moves = << >>
    /\ budget = MaxClicks - 1
    /\ timers = 0

\* The place of a pattern in the table of threat levels, 8 for five or more
\* down to 0 for a single stone with at most one open end; -1 for a pattern
\* the table does not name.
ThreatLevel(count, open_ends) ==
    IF count >= 5 THEN 8
    ELSE IF count = 4 /\ open_ends = 2 THEN 7
    ELSE IF count = 4 /\ open_ends = 1 THEN 6
    ELSE IF count = 3 /\ open_ends = 2 THEN 5
    ELSE IF count = 3 /\ open_ends = 1 THEN 4
    ELSE IF count = 2 /\ open_ends = 2 THEN 3
    ELSE IF count = 2 /\ open_ends = 1 THEN 2
    ELSE IF count = 1 /\ open_ends = 2 THEN 1
    ELSE IF count = 1 THEN 0
    ELSE -1

\* C13: pattern_score is strictly ordered by threat level.  The score of a
\* pattern the table names is greater than the score of every named pattern
\* of a lower level, and equal for patterns of the same level.
PatternScoreOrdered ==
    last.op = "pattern_score" =>
        LET level == ThreatLevel(last.args[1], last.args[2])
        IN  level >= 0 =>
              \A count \in 1 .. BOARD_SIZE, open_ends \in 0 .. 2 :
                 LET other == ThreatLevel(count, open_ends)
                 IN  /\ (other >= 0 /\ level > other) =>
                            NumGt(last.ret, pattern_score(count, open_ends))
                     /\ level = other =>
                            last.ret = pattern_score(count, open_ends)

\* pattern_score was applied to a closed four and returned 10^6.
PatternScoreOrderedReached ==
    /\ last.op = "pattern_score"
    /\ last.args = << 4, 1 >>
    /\ last.ret = << 0, 1, 0 >>

\* The cells a scan from (r, c) by the step (dr, dc) passes while it counts
\* cnt stones, and the cell it stops at when that cell is on the grid.
ScanPath(r, c, dr, dc, cnt) ==
    {<< r + k * dr, c + k * dc >> : k \in 1 .. (cnt + 1)} \cap Cells

\* C14: the line scanner stays on the grid.  A scan counts the contiguous
\* stones of the colour next to the origin and stops at the first other cell
\* or at the edge; it reads the board at cells of the grid only, the counted
\* cells and the cell it stops at; and the line total 1 + forward + backward
\* is at most BOARD_SIZE, in count_one_direction and in
\* line_count_and_open_ends alike.
ScanStaysOnGrid ==
    /\ last.op = "count_one_direction" =>
          LET r == last.args[1]
              c == last.args[2]
              dr == last.args[3]
              dc == last.args[4]
              color == last.args[5]
              b == last.pre.board
          IN  /\ last.ret.cnt = Run(b, r, c, dr, dc, color)
              /\ last.ret.reads \subseteq Cells
              /\ last.ret.reads = ScanPath(r, c, dr, dc, last.ret.cnt)
              /\ 1 + last.ret.cnt + count_one_direction(b, r, c, -dr, -dc, color)
                    <= BOARD_SIZE
    /\ last.op = "line_count_and_open_ends" =>
          LET r == last.args[1]
              c == last.args[2]
              dr == last.args[3]
              dc == last.args[4]
              color == last.args[5]
              b == last.pre.board
          IN  /\ last.ret.count =
                    1 + Run(b, r, c, dr, dc, color) + Run(b, r, c, -dr, -dc, color)
              /\ last.ret.count <= BOARD_SIZE
              /\ last.ret.open_ends \in 0 .. 2

\* The scanner was applied at the empty center of a line that runs from edge
\* to edge: the line total is BOARD_SIZE and no end is open.
ScanStaysOnGridReached ==
    /\ last.op = "line_count_and_open_ends"
    /\ << last.args[1], last.args[2] >> = CENTER
    /\ last.pre.board[CENTER] = EMPTY
    /\ last.ret.count = BOARD_SIZE
    /\ last.ret.open_ends = 0

\* C15: a click off the grid or on a cell that holds a stone is rejected
\* without effect.  on_click returns before play_move, so the board, the
\* log, the side to move and game_over keep their values; and no step of the
\* program gives a cell that holds a stone another colour.
InvalidCellRejected ==
    [][/\ \/ UNCHANGED << board, moves, current, game_over >>
          \/ \A pt \in ClickPoints :
                LET rc == xy_to_rc(pt[1], pt[2])
                IN  (rc = NoCell \/ board[rc] # EMPTY) => ~ on_click(pt[1], pt[2])
       /\ \/ board' = board
          \/ \A p \in Cells :
                board[p] # EMPTY => board'[p] \in {board[p], EMPTY}]_vars

\* A two-player game in progress with a stone on the center, where a click
\* on the center and a click off the grid are both at hand.
InvalidCellRejectedReached ==
    /\ board[CENTER] # EMPTY
    /\ mode = MODE_PVP
    /\ ~ game_over
    /\ ~ pending_restart
    /\ budget > 0
    /\ xy_to_rc(rc_to_xy(CENTER[1], CENTER[2])[1], rc_to_xy(CENTER[1], CENTER[2])[2]) = CENTER
    /\ \E pt \in ClickPoints : xy_to_rc(pt[1], pt[2]) = NoCell

\* C16: in a game against the computer, whenever the game is not over, no
\* restart is pending and white is to move, the computer's move is scheduled:
\* ai_thinking is true and a job is pending.  The code does not keep this:
\* undo takes two moves off a log that ends with the human's stone, cancels
\* the job and leaves white to move with nothing scheduled, where on_click
\* refuses every click.
ComputerMoveScheduled ==
    (mode = MODE_AI /\ ~ game_over /\ ~ pending_restart /\ current = WHITE) =>
        (ai_thinking /\ ai_job /\ timers > 0)

\* C17: the colours of the log alternate, black first (in the code's
\* counting the move at an even index is BLACK, at an odd index WHITE), and
\* while the game is not over the side to move is BLACK exactly when the
\* length of the log is even.
LogAlternates ==
    /\ \A i \in 1 .. Len(moves) :
          moves[i].color = (IF (i - 1) % 2 = 0 THEN BLACK ELSE WHITE)
    /\ ~ game_over => (current = BLACK <=> Len(moves) % 2 = 0)

\* A game against the computer after the human's second click and the
\* computer's answer to it: four moves on the log and black to move.
LogAlternatesReached ==
    /\ last.op = "none"
    /\ mode = MODE_AI
    /\ budget = 0
    /\ ~ game_over
    /\ ~ ai_job
    /\ Len(moves) = 4
    /\ current = BLACK

\* C18: a change of the mode or the difficulty selection waits for restart.
\* The selection sets pending_restart and leaves the mode and the difficulty
\* in effect, the board, the log, the side to move and game_over as they
\* are; while pending_restart is true no step other than restart changes
\* the board, the log, the mode or the difficulty in effect, or clears
\* pending_restart; and restart clears it and puts the selection in effect.
SelectionWaitsForRestart ==
    [][/\ ((\E m \in Modes : select_mode(m)) \/ (\E d \in Diffs : select_diff(d))) =>
             /\ pending_restart'
             /\ UNCHANGED << mode, difficulty, board, moves, current, game_over >>
       /\ (pending_restart /\ ~ restart) =>
             /\ pending_restart'
             /\ UNCHANGED << mode, difficulty, board, moves >>
       /\ (mode' # mode \/ difficulty' # difficulty) => restart
       /\ restart =>
             /\ ~ pending_restart'
             /\ mode' = ui_mode
             /\ difficulty' = ui_diff]_vars

\* The selection was changed while the computer's move was scheduled and
\* the job has fired since: the human's stone is alone on the board, white
\* is still to move and the restart is still pending.
SelectionWaitsForRestartReached ==
    /\ pending_restart
    /\ mode = MODE_AI
    /\ Len(moves) = 1
    /\ current = WHITE
    /\ ~ ai_thinking
    /\ ~ ai_job
    /\ timers = 0

\* C19: ai_thinking is true exactly when a computer-move job is pending;
\* at most one callback is pending, and it is the job ai_job names; and
\* while a job is pending the only stone that can be placed is the white
\* stone of the job itself, never a stone of a human click.
ThinkingIffJobPending ==
    /\ [](/\ ai_thinking <=> ai_job
          /\ timers = (IF ai_job THEN 1 ELSE 0))
    /\ [][(ai_job /\ Len(moves') > Len(moves)) =>
            /\ ~ ai_job'
            /\ timers' = timers - 1
            /\ moves' = Append(moves, Move(moves'[Len(moves')].r,
                                           moves'[Len(moves')].c, WHITE))
            /\ \A pt \in ClickPoints : click_refused(xy_to_rc(pt[1], pt[2]))]_vars

\* The computer's job has fired in a game that started with the job pending
\* and the human's second stone on the board: white's second stone is on the
\* log and nothing is pending.
ThinkingIffJobPendingReached ==
    /\ last.op = "none"
    /\ mode = MODE_AI
    /\ Len(moves) = 4
    /\ budget = 1
    /\ ~ ai_thinking
    /\ ~ ai_job
    /\ timers = 0

\* C20: at every tier a cell that ai_choose_move returns is on the grid and
\* EMPTY on the board of the call, and on the board the call leaves; and a
\* step of do_ai_move that places a stone places it on an EMPTY cell of the
\* grid and leaves every stone on the board where it is.
ChosenCellIsEmpty ==
    /\ []((last.op = "ai_choose_move" /\ Len(last.ret) = 2) =>
            /\ last.ret \in Cells
            /\ last.pre.board[last.ret] = EMPTY
            /\ board[last.ret] = EMPTY)
    /\ [][(moves' # moves /\ do_ai_move) =>
            /\ LogCell(moves', Len(moves')) \in Cells
            /\ board[LogCell(moves', Len(moves'))] = EMPTY
            /\ \A p \in Cells : board[p] # EMPTY => board'[p] = board[p]]_vars

\* ai_choose_move returned a cell at the High tier on a board with stones of
\* both colours.
ChosenCellIsEmptyReached ==
    /\ last.op = "ai_choose_move"
    /\ last.args = << DIFF_HIGH >>
    /\ last.ret \in Cells
    /\ Len(moves) >= 7

====
